---------------------------- MODULE Spec2Model ----------------------------
(***************************************************************************)
(* Amortization engine of ca-purchase-cost: PropertyLoan (the monthly      *)
(* schedule generator and its yearly aggregation) and                      *)
(* IncomeAdjustedPropertyLoan (the deduction columns of the yearly table). *)
(*                                                                         *)
(* Number representation.  The program computes in Python floats.  Here a  *)
(* dollar amount is an integer number of cents (Cent units per dollar) and *)
(* a fraction (a rate, a growth factor) is an integer number of millionths *)
(* (Scale units per 1).  Every product and quotient is computed exactly    *)
(* and then rounded to the nearest unit, in the order in which the source  *)
(* performs the operations.  mortgage_years is an integer, as the number   *)
(* input of the application supplies it.                                   *)
(***************************************************************************)
EXTENDS Integers, Sequences, FiniteSets

VARIABLES
    params,     \* the fields of the IncomeAdjustedPropertyLoan object
    today,      \* the wall-clock date, what datetime.date.today() returns
    pc,         \* "idle" | "iterating" | "done" | "raised"
    rows,       \* the statuses yielded so far by the running/last iteration
    previous,   \* the rows of the preceding completed evaluation of dataframe
    calls,      \* evaluations of dataframe started so far
    ticks       \* days the wall clock has advanced since construction

vars == <<params, today, pc, rows, previous, calls, ticks>>

---------------------------------------------------------------------------
(* Fixed-point arithmetic standing for float arithmetic *)

Cent == 100
Scale == 1000000

Abs(x) == IF x < 0 THEN -x ELSE x
Sgn(x) == IF x < 0 THEN -1 ELSE IF x > 0 THEN 1 ELSE 0
Max2(a, b) == IF a >= b THEN a ELSE b

\* <<q, r>> with a * b = q * c + r and 0 <= r < c, for a, b >= 0 and c > 0,
\* computed by doubling so that no intermediate value exceeds 3 * c.
RECURSIVE MulQR(_, _, _)
MulQR(a, b, c) ==
    IF b = 0 THEN <<0, 0>>
    ELSE LET h == MulQR(a, b \div 2, c)
             t == 2 * h[2] + (b % 2) * (a % c)
         IN  <<2 * h[1] + (b % 2) * (a \div c) + (t \div c), t % c>>

\* a * b / c rounded to the nearest unit (half away from zero); c # 0.
MulDiv(a, b, c) ==
    IF a = 0 \/ b = 0 THEN 0
    ELSE LET qr == MulQR(Abs(a), Abs(b), Abs(c))
             n  == IF 2 * qr[2] >= Abs(c) THEN qr[1] + 1 ELSE qr[1]
         IN  Sgn(a) * Sgn(b) * Sgn(c) * n

\* float * fraction, float / number
FMul(a, f) == MulDiv(a, f, Scale)
FDiv(a, n) == MulDiv(a, 1, n)

\* base ** n for a fraction base and an integer n (n < 0: the reciprocal)
RECURSIVE PowNat(_, _)
PowNat(base, n) ==
    IF n = 0 THEN Scale
    ELSE LET h  == PowNat(base, n \div 2)
             sq == FMul(h, h)
         IN  IF n % 2 = 1 THEN FMul(sq, base) ELSE sq
Pow(base, n) ==
    IF n >= 0 THEN PowNat(base, n) ELSE MulDiv(Scale, Scale, PowNat(base, -n))

---------------------------------------------------------------------------
(* Calendar: datetime.date and relativedelta(months=1) *)

IsLeap(y) == (y % 4 = 0 /\ y % 100 # 0) \/ y % 400 = 0
DaysInMonth(y, m) ==
    IF m = 2 THEN (IF IsLeap(y) THEN 29 ELSE 28)
    ELSE IF m \in {4, 6, 9, 11} THEN 30 ELSE 31

\* date + relativedelta(months=1): the next month, the day clamped to its length
payment_interval(d) ==
    LET y == IF d.month = 12 THEN d.year + 1 ELSE d.year
        m == IF d.month = 12 THEN 1 ELSE d.month + 1
        k == DaysInMonth(y, m)
    IN  [year |-> y, month |-> m, day |-> IF d.day > k THEN k ELSE d.day]

\* the day after d: the wall clock passing midnight
NextDay(d) ==
    IF d.day < DaysInMonth(d.year, d.month)
    THEN [d EXCEPT !.day = d.day + 1]
    ELSE IF d.month < 12
         THEN [year |-> d.year, month |-> d.month + 1, day |-> 1]
         ELSE [year |-> d.year + 1, month |-> 1, day |-> 1]

---------------------------------------------------------------------------
(* PropertyLoan *)

MONTHS_PER_YEAR == 12

loan_amount_usd(p) ==
    FMul(p.purchase_price, Scale - p.down_payment_percentage)

numerator(p) == Pow(Scale + p.interest_rate_percentage, p.mortgage_years)
denomenator(p) == numerator(p) - Scale

\* result /= denomenator raises ZeroDivisionError when the denominator is 0
mortgage_raises(p) == denomenator(p) = 0

mortgage_per_year_usd(p) ==
    LET r1 == loan_amount_usd(p)
        r2 == FMul(r1, p.interest_rate_percentage)
        r3 == FMul(r2, numerator(p))
    IN  MulDiv(r3, Scale, denomenator(p))

mortgage_per_month_usd(p) == FDiv(mortgage_per_year_usd(p), MONTHS_PER_YEAR)

calculate_monthly_interest(p, balance_usd) ==
    FDiv(FMul(balance_usd, p.interest_rate_percentage), MONTHS_PER_YEAR)

\* variant with the operands of the subtraction exchanged
calculate_monthly_principal_swapped(p, interest_usd, balance_usd) ==
    IF balance_usd > 0 THEN interest_usd - mortgage_per_month_usd(p) ELSE 0

calculate_monthly_principal(p, interest_usd, balance_usd) ==
    IF balance_usd > 0 THEN mortgage_per_month_usd(p) - interest_usd ELSE 0

property_taxes_monthly_usd(p) == FDiv(p.property_taxes_yearly_usd, MONTHS_PER_YEAR)

\* variant without the floor at 0
next_months_balance_unfloored(s) == s.balance - s.principal

next_months_balance(s) == Max2(s.balance - s.principal, 0)

calculate_next_loan_status(p, s) ==
    LET b == next_months_balance(s)
        i == calculate_monthly_interest(p, b)
    IN  [date      |-> payment_interval(s.date),
         balance   |-> b,
         interest  |-> i,
         principal |-> calculate_monthly_principal(p, i, b),
         taxes     |-> s.taxes]

initial_loan_status(p, now) ==
    LET i == calculate_monthly_interest(p, loan_amount_usd(p))
    IN  [date      |-> now,
         balance   |-> loan_amount_usd(p),
         interest  |-> i,
         principal |-> calculate_monthly_principal(p, i, loan_amount_usd(p)),
         taxes     |-> property_taxes_monthly_usd(p)]

---------------------------------------------------------------------------
(* The object under analysis and the bounds of the analysis *)

MaxYears == 2        \* longest term of the enumerated loans, in years
MaxCalls == 2        \* evaluations of dataframe on one object
MaxTicks == 1        \* midnights passing between evaluations
MaxExtraRows == 4    \* statuses followed beyond 12 * |mortgage_years|

Dollars(n) == n * Cent
Percent(n) == n * (Scale \div 100)

\* the application's default property tax rate, 1.25 %
PropertyTaxPercentage == 125 * (Scale \div 10000)

MakeLoan(price, down, rate, years, itemized) ==
    [purchase_price            |-> Dollars(price),
     down_payment_percentage   |-> Percent(down),
     interest_rate_percentage  |-> Percent(rate),
     mortgage_years            |-> years,
     property_taxes_yearly_usd |-> FMul(Dollars(price), PropertyTaxPercentage),
     agi_usd                   |-> Dollars(70000),
     itemized_deductions_usd   |-> Dollars(itemized)]

\* the application's default inputs: the example loan of the specification
ExampleLoan == MakeLoan(1000000, 20, 7, 30, 0)

\* enumerated loans: valid ones, and ones with a negative price, a negative
\* or zero rate, a negative or zero term
EnumeratedLoans ==
    { MakeLoan(price, down, rate, years, itemized) :
        price \in {-100000, 0, 100000}, down \in {0, 20}, rate \in {-5, 0, 2, 7},
        years \in (-1)..MaxYears, itemized \in {0, 20000} }

Loans == EnumeratedLoans \cup {ExampleLoan}

\* the last day of each month of one year
StartDates == { [year |-> 2023, month |-> m, day |-> DaysInMonth(2023, m)] : m \in 1..12 }

RowCap(p) == MONTHS_PER_YEAR * Abs(p.mortgage_years) + MaxExtraRows

Last(s) == s[Len(s)]

Init ==
    /\ params \in Loans
    /\ today \in StartDates
    /\ pc = "idle"
    /\ rows = <<>>
    /\ previous = <<>>
    /\ calls = 0
    /\ ticks = 0

\* dataframe: pd.DataFrame(iter(self)) starts the generator, which evaluates
\* initial_loan_status and yields it, unless mortgage_per_year_usd raises
Iter_Start ==
    /\ pc \in {"idle", "done"}
    /\ calls < MaxCalls
    /\ calls' = calls + 1
    /\ previous' = IF pc = "done" THEN rows ELSE previous
    /\ IF mortgage_raises(params)
       THEN pc' = "raised" /\ rows' = <<>>
       ELSE pc' = "iterating" /\ rows' = <<initial_loan_status(params, today)>>
    /\ UNCHANGED <<params, today, ticks>>

\* while loan_status.balance > 0: the next status is computed and yielded
Iter_Next ==
    /\ pc = "iterating"
    /\ Last(rows).balance > 0
    /\ Len(rows) < RowCap(params)
    /\ rows' = Append(rows, calculate_next_loan_status(params, Last(rows)))
    /\ UNCHANGED <<params, today, pc, previous, calls, ticks>>

\* the loop condition fails: the generator is exhausted, the frame is built
Iter_Stop ==
    /\ pc = "iterating"
    /\ ~(Last(rows).balance > 0)
    /\ pc' = "done"
    /\ UNCHANGED <<params, today, rows, previous, calls, ticks>>

\* midnight passes between two evaluations of dataframe
Tick ==
    /\ pc = "done"
    /\ calls < MaxCalls
    /\ ticks < MaxTicks
    /\ today' = NextDay(today)
    /\ ticks' = ticks + 1
    /\ UNCHANGED <<params, pc, rows, previous, calls>>

Next == Iter_Start \/ Iter_Next \/ Iter_Stop \/ Tick

Spec == Init /\ [][Next]_vars

---------------------------------------------------------------------------
(* PropertyLoan.dataframe_yearly: df.groupby(df['date'].dt.year).agg(...) *)

\* df['date'].dt.year of row i, after pd.to_datetime of the date column
YearOf(df, i) == df[i].date.year

GroupKeys(df) == { YearOf(df, i) : i \in 1..Len(df) }
Group(df, y) == { i \in 1..Len(df) : YearOf(df, i) = y }

SetMax(S) == CHOOSE x \in S : \A z \in S : z <= x
SetMin(S) == CHOOSE x \in S : \A z \in S : x <= z

\* the aggregation 'sum' of a column over the rows I of a group
RECURSIVE AggSum(_, _, _)
AggSum(df, col, I) ==
    IF I = {} THEN 0
    ELSE LET i == SetMin(I) IN df[i][col] + AggSum(df, col, I \ {i})

\* the aggregation 'max' of a column over the rows I of a group
AggMax(df, col, I) == SetMax({ df[i][col] : i \in I })
AggMin(df, col, I) == SetMin({ df[i][col] : i \in I })

\* variant aggregating balance by 'min'
YearlyBalance_min(df, I) == AggMin(df, "balance", I)

\* YEARLY_AGGREGATIONS
YearlyBalance(df, I)   == AggMax(df, "balance", I)
YearlyInterest(df, I)  == AggSum(df, "interest", I)
YearlyPrincipal(df, I) == AggSum(df, "principal", I)
YearlyTaxes(df, I)     == AggSum(df, "taxes", I)

\* groupby sorts the group keys: the keys of K in ascending order
RECURSIVE SortedKeys(_)
SortedKeys(K) ==
    IF K = {} THEN <<>>
    ELSE LET k == SetMin(K) IN <<k>> \o SortedKeys(K \ {k})

dataframe_yearly(df) ==
    LET keys == SortedKeys(GroupKeys(df))
    IN  [ n \in 1..Len(keys) |->
            LET I == Group(df, keys[n])
            IN  [year      |-> keys[n],
                 balance   |-> YearlyBalance(df, I),
                 interest  |-> YearlyInterest(df, I),
                 principal |-> YearlyPrincipal(df, I),
                 taxes     |-> YearlyTaxes(df, I)] ]

---------------------------------------------------------------------------
(* IncomeAdjustedPropertyLoan.dataframe_yearly: the deduction columns.    *)
(* The columns estimated_appreciation_effective_mortgage_decrease and     *)
(* total are left out: nothing stated below reads them.                   *)

STANDARD_DEDUCTION == Dollars(13850)

\* variant reading the principal column in place of the interest column
total_itemized_deductions_principal(p, row) ==
    row.principal + p.itemized_deductions_usd

total_itemized_deductions(p, row) == row.interest + p.itemized_deductions_usd

\* variant taking the smaller of the two deductions
maximum_deduction_min(p, row) ==
    IF total_itemized_deductions(p, row) <= STANDARD_DEDUCTION
    THEN total_itemized_deductions(p, row) ELSE STANDARD_DEDUCTION

maximum_deduction(p, row) ==
    Max2(total_itemized_deductions(p, row), STANDARD_DEDUCTION)

income_adjusted_dataframe_yearly(p, df) ==
    LET base == dataframe_yearly(df)
    IN  [ n \in 1..Len(base) |->
            [year      |-> base[n].year,
             balance   |-> base[n].balance,
             interest  |-> base[n].interest,
             principal |-> base[n].principal,
             taxes     |-> base[n].taxes,
             agi       |-> p.agi_usd,
             total_itemized_deductions |-> total_itemized_deductions(p, base[n]),
             standard_deduction        |-> STANDARD_DEDUCTION,
             maximum_deduction         |-> maximum_deduction(p, base[n]),
             agi_reduced               |-> p.agi_usd - maximum_deduction(p, base[n]),
             estimated_tax_savings     |-> MulDiv(maximum_deduction(p, base[n]), -4, 10)] ]

---------------------------------------------------------------------------
(* Properties of the monthly schedule *)

\* the parameter sets the schedule properties are stated for
Valid(p) ==
    /\ p.interest_rate_percentage > 0
    /\ p.mortgage_years > 0
    /\ loan_amount_usd(p) >= 0

\* C1: for rate > 0, term > 0 and loan amount >= 0 the iteration of the
\* monthly schedule terminates after finitely many statuses (it does not
\* raise, and it never reaches the row cap with a balance still to pay), and
\* the last status produced has balance exactly 0.
C1_TerminatesAtZero ==
    Valid(params) =>
        /\ pc # "raised"
        /\ Len(rows) < RowCap(params)
        /\ pc = "done" => Last(rows).balance = 0

C1_Witness ==
    /\ Valid(params)
    /\ pc = "done"
    /\ Len(rows) > MONTHS_PER_YEAR
    /\ Last(rows).balance = 0

\* C2: for valid parameters balance is never negative, never increases from
\* one status to the next, and only the last status can have balance 0 (no
\* status follows a zero-balance status).
C2_BalanceMonotoneToZero ==
    Valid(params) =>
        /\ \A i \in 1..Len(rows) : rows[i].balance >= 0
        /\ \A i \in 1..(Len(rows) - 1) :
              /\ rows[i + 1].balance <= rows[i].balance
              /\ rows[i].balance > 0

C2_Witness ==
    /\ Valid(params)
    /\ pc = "done"
    /\ Len(rows) >= 3
    /\ rows[1].balance > rows[2].balance
    /\ rows[Len(rows) - 1].balance > 0
    /\ Last(rows).balance = 0

\* sum of the principal column over the statuses lo..hi of a schedule
RECURSIVE SumPrincipal(_, _, _)
SumPrincipal(df, lo, hi) ==
    IF lo > hi THEN 0
    ELSE IF lo = hi THEN df[lo].principal
    ELSE LET mid == (lo + hi) \div 2
         IN  SumPrincipal(df, lo, mid) + SumPrincipal(df, mid + 1, hi)

\* rounding allowed to a sum or a product of n rounded amounts: a cent each
Tolerance(n) == n

\* C3: for valid parameters the principal column of the full schedule sums
\* to the loan amount (within rounding), and the principal of the last
\* payment period does not exceed the balance that remained before it.
C3_PrincipalSumsToLoanAmount ==
    (Valid(params) /\ pc = "done") =>
        /\ Abs(SumPrincipal(rows, 1, Len(rows)) - loan_amount_usd(params))
              <= Tolerance(Len(rows))
        /\ Len(rows) >= 2 =>
              rows[Len(rows) - 1].principal
                <= rows[Len(rows) - 1].balance + Tolerance(Len(rows))

\* the level-payment annuity amount per period for a loan amount, a rate per
\* period and a number of periods: amount * i * (1+i)^n / ((1+i)^n - 1)
AnnuityPayment(amount, i, n) ==
    LET growth == Pow(Scale + i, n)
    IN  MulDiv(FMul(FMul(amount, i), growth), Scale, growth - Scale)

\* C4: for rate > 0 and term > 0 the monthly payment is the level-payment
\* annuity amount per period, with i = annual rate / 12 and n = term * 12
\* (within a tenth of a percent of the amount, for the rounding of i).
\* Stated here for the loans that also have an amount >= 0, once the
\* schedule has been asked for and the payment computed.
C4_PaymentIsMonthlyAnnuity ==
    (Valid(params) /\ pc # "idle") =>
        LET standard ==
                AnnuityPayment(loan_amount_usd(params),
                               FDiv(params.interest_rate_percentage, MONTHS_PER_YEAR),
                               params.mortgage_years * MONTHS_PER_YEAR)
        IN  Abs(mortgage_per_month_usd(params) - standard)
              <= Abs(standard) \div 1000 + Tolerance(1)

\* C5: a valid loan with a positive amount is retired in exactly
\* term * 12 payment periods: term * 12 statuses have a balance > 0.
C5_RetiredInTermTimesTwelvePeriods ==
    (Valid(params) /\ loan_amount_usd(params) > 0 /\ pc = "done") =>
        Cardinality({ i \in 1..Len(rows) : rows[i].balance > 0 })
            = params.mortgage_years * MONTHS_PER_YEAR

\* C6: with rate = 0, term > 0 and loan amount >= 0, computing the payment
\* does not fail with a division by zero; the schedule is produced and ends
\* with balance 0.
C6_ZeroRateDoesNotDivideByZero ==
    ( /\ params.interest_rate_percentage = 0
      /\ params.mortgage_years > 0
      /\ loan_amount_usd(params) >= 0 ) =>
        /\ pc # "raised"
        /\ pc = "done" => Last(rows).balance = 0

\* the parameter sets that are to be rejected: invalid ones, and ones whose
\* initial status has a principal <= 0
Rejected(p) ==
    \/ p.interest_rate_percentage < 0
    \/ p.mortgage_years <= 0
    \/ loan_amount_usd(p) < 0
    \/ /\ ~mortgage_raises(p)
       /\ initial_loan_status(p, today).principal <= 0

\* C7: an invalid or non-amortizing parameter set is rejected with an error
\* before any status is produced: once the schedule is asked for, the only
\* outcome is the error, and no status is ever yielded.
C7_InvalidInputIsRejected ==
    Rejected(params) =>
        /\ rows = <<>>
        /\ calls > 0 => pc = "raised"

\* C8: two evaluations of the monthly schedule of one object yield identical
\* sequences of statuses, every field including date equal position by
\* position.  Stated here for the valid parameter sets.
C8_RepeatedScheduleIsIdentical ==
    (Valid(params) /\ pc = "done" /\ previous # <<>>) => rows = previous

---------------------------------------------------------------------------
(* Properties of the yearly tables *)

\* sum of a column over the statuses lo..hi of a schedule dated in year y
RECURSIVE SumInYear(_, _, _, _, _)
SumInYear(df, col, y, lo, hi) ==
    IF lo > hi THEN 0
    ELSE IF lo = hi THEN (IF df[lo].date.year = y THEN df[lo][col] ELSE 0)
    ELSE LET mid == (lo + hi) \div 2
         IN  SumInYear(df, col, y, lo, mid) + SumInYear(df, col, y, mid + 1, hi)

\* the first status of a schedule dated in year y
FirstInYear(df, y) ==
    df[SetMin({ i \in 1..Len(df) : df[i].date.year = y })]

\* C9: the yearly table of a completed schedule has exactly one row per
\* distinct calendar year of the schedule, in ascending year order; a row's
\* interest, principal and taxes are the sums over the statuses dated in its
\* year, and its balance is the maximum balance of the year, which is the
\* balance of the first status dated in that year.
C9_YearlyTableIsReductionByYear ==
    pc = "done" =>
        LET table == dataframe_yearly(rows)
            years == { rows[i].date.year : i \in 1..Len(rows) }
        IN  /\ Len(table) = Cardinality(years)
            /\ { table[n].year : n \in 1..Len(table) } = years
            /\ \A n \in 1..(Len(table) - 1) : table[n].year < table[n + 1].year
            /\ \A n \in 1..Len(table) :
                  LET y == table[n].year
                  IN  /\ table[n].interest = SumInYear(rows, "interest", y, 1, Len(rows))
                      /\ table[n].principal = SumInYear(rows, "principal", y, 1, Len(rows))
                      /\ table[n].taxes = SumInYear(rows, "taxes", y, 1, Len(rows))
                      /\ \A i \in 1..Len(rows) :
                            rows[i].date.year = y => rows[i].balance <= table[n].balance
                      /\ table[n].balance = FirstInYear(rows, y).balance

C9_Witness ==
    /\ pc = "done"
    /\ Len(dataframe_yearly(rows)) >= 2
    /\ \E i \in 1..(Len(rows) - 1) :
          /\ rows[i].date.year = rows[i + 1].date.year
          /\ rows[i].balance > rows[i + 1].balance
          /\ rows[i + 1].balance > 0

\* the first row of the tax-adjusted yearly table of a completed schedule
FirstYearlyRow == income_adjusted_dataframe_yearly(params, rows)[1]

\* C10 as stated: for the example loan the first yearly row has
\* total_itemized_deductions above the standard deduction, hence
\* maximum_deduction = total_itemized_deductions, whatever the origination
\* date of the schedule is.
C10_FirstYearItemizesWhateverTheDate ==
    (params = ExampleLoan /\ pc = "done") =>
        /\ FirstYearlyRow.total_itemized_deductions > STANDARD_DEDUCTION
        /\ FirstYearlyRow.maximum_deduction = FirstYearlyRow.total_itemized_deductions

\* C10 amended: for the example loan the first yearly row's
\* total_itemized_deductions is the interest of the statuses dated in the
\* origination year; it is above the standard deduction, and
\* maximum_deduction equals it, when the schedule originates in January to
\* October; for an origination in November or December it is below the
\* standard deduction and maximum_deduction is the standard deduction.
C10_FirstYearItemizesUntilOctober ==
    (params = ExampleLoan /\ pc = "done") =>
        LET row == FirstYearlyRow
        IN  /\ row.year = rows[1].date.year
            /\ row.total_itemized_deductions
                  = SumInYear(rows, "interest", rows[1].date.year, 1, Len(rows))
            /\ rows[1].date.month <= 10 =>
                  /\ row.total_itemized_deductions > STANDARD_DEDUCTION
                  /\ row.maximum_deduction = row.total_itemized_deductions
            /\ rows[1].date.month > 10 =>
                  /\ row.total_itemized_deductions < STANDARD_DEDUCTION
                  /\ row.maximum_deduction = STANDARD_DEDUCTION

C10_Witness ==
    /\ params = ExampleLoan
    /\ pc = "done"
    /\ rows[1].date.month = 10
    /\ FirstYearlyRow.maximum_deduction = FirstYearlyRow.total_itemized_deductions
    /\ FirstYearlyRow.maximum_deduction > STANDARD_DEDUCTION

\* C11: in every row of the tax-adjusted yearly table of a completed
\* schedule, standard_deduction is 13,850, total_itemized_deductions is the
\* row's interest plus the itemized deductions excluding property, and
\* maximum_deduction is at least each of the two and equal to one of them.
C11_MaximumDeductionIsTheLarger ==
    pc = "done" =>
        LET table == income_adjusted_dataframe_yearly(params, rows)
        IN  \A n \in 1..Len(table) :
              /\ table[n].standard_deduction = 13850 * Cent
              /\ table[n].total_itemized_deductions
                    = table[n].interest + params.itemized_deductions_usd
              /\ table[n].maximum_deduction >= table[n].standard_deduction
              /\ table[n].maximum_deduction >= table[n].total_itemized_deductions
              /\ table[n].maximum_deduction
                    \in {table[n].standard_deduction,
                         table[n].total_itemized_deductions}

\* a table with a row where itemizing is larger and a row where the standard
\* deduction is larger
C11_Witness ==
    /\ pc = "done"
    /\ LET table == income_adjusted_dataframe_yearly(params, rows)
       IN  /\ \E n \in 1..Len(table) :
                 /\ table[n].total_itemized_deductions > table[n].standard_deduction
                 /\ table[n].maximum_deduction = table[n].total_itemized_deductions
           /\ \E n \in 1..Len(table) :
                 /\ table[n].total_itemized_deductions < table[n].standard_deduction
                 /\ table[n].maximum_deduction = table[n].standard_deduction

===========================================================================
